---- MODULE Spec2Model ----
(***************************************************************************)
(* The roulette program of casino/src: the Honeypot and its Vault, the     *)
(* per-player LockedGuess record, the RNG sample cache, and the eight      *)
(* instructions of Processor::process.  Every handler is an operator that  *)
(* maps the ledger state and the instruction's inputs to an outcome (the   *)
(* ProgramResult and the ledger the transaction commits); an instruction   *)
(* that returns Err commits nothing.                                       *)
(*                                                                         *)
(* u64 is scaled down to 0..U64_MAX so that every overflow of the code     *)
(* happens inside the model's bounds.                                      *)
(***************************************************************************)
EXTENDS Integers, Sequences, FiniteSets, TLC

\* ---------------------------------------------------------------- bounds
U64_MAX == 63          \* stands for u64::MAX
MaxSlot == 2           \* the clock stops advancing here
MaxGuesses == 2        \* longest Vec<RouletteGuess> passed to PlaceGuesses
MaxIx == 2             \* most instructions in one transaction

\* ------------------------------------------------------- program constants
NumPockets == 38
NumSlots == 64
NumGuessKinds == 50

\* ---------------------------------------------------------------- inputs
Players == {"p1", "p2"}
Owner == "owner"
Wallets == Players \cup {Owner}
VaultAcct == "vault"
Ata(w) == CASE w = "p1" -> "ata_p1" [] w = "p2" -> "ata_p2" [] OTHER -> "ata_owner"
TokenAccounts == {VaultAcct} \cup {Ata(w) : w \in Wallets}

U64 == 0..U64_MAX
Slots == 0..(NumSlots - 1)
ZeroGuesses == [i \in Slots |-> 0]

\* The bets the players place: on R5 (ordinal 6, straight-up on pocket 5) and
\* on Red (ordinal 38).
RouletteGuesses ==
    { [guess |-> 6, amount |-> 1], [guess |-> 6, amount |-> 2],
      [guess |-> 38, amount |-> 0], [guess |-> 38, amount |-> 1],
      [guess |-> 38, amount |-> 20], [guess |-> 38, amount |-> 50] }
RECURSIVE SeqsUpTo(_, _)
SeqsUpTo(S, n) ==
    IF n = 0 THEN {<<>>}
    ELSE LET shorter == SeqsUpTo(S, n - 1)
         IN shorter \cup {Append(s, x) : s \in {t \in shorter : Len(t) = n - 1}, x \in S}
GuessLists == SeqsUpTo(RouletteGuesses, MaxGuesses)

HouseFunds == 6
InitialPlayer == 2

Tolerances == {0, 1, U64_MAX}
SampleValues == {38, 43}
WithdrawAmounts == {HouseFunds - 1, HouseFunds + 1}

\* InitializeHoneypot arguments the house may have deployed with.
Configs ==
    { [tick_size |-> 1, max_amount |-> 2, minimum_bank_size |-> 1],
      [tick_size |-> 0, max_amount |-> 2, minimum_bank_size |-> 1],
      [tick_size |-> 2, max_amount |-> 4, minimum_bank_size |-> U64_MAX] }

VARIABLES
    honeypot,   \* the Honeypot record
    locked,     \* player -> the LockedGuess record derived for (player, vault)
    bal,        \* token account -> amount
    rng,        \* the RNG sample cache
    clock,      \* Clock::slot
    last,       \* the last instruction that succeeded, the record it was given, the
                \* active flag it found there, and what a spin and a try_cancel of
                \* the other players' Committed records would have given before it
    payout      \* a RouletteGuess, an outcome, and what get_payout returned for them

vars == <<honeypot, locked, bal, rng, clock, last, payout>>

\* ------------------------------------------------------------ arithmetic
\* u64::checked_add / checked_mul: None (here -1) on overflow.
None == -1
checked_add(a, b) == IF a + b > U64_MAX THEN None ELSE a + b
checked_mul(a, b) == IF a * b > U64_MAX THEN None ELSE a * b
\* The plain `*` of get_payout: a build with overflow checks panics (None),
\* a build without them wraps.
unchecked_mul(a, b, overflow_checks) ==
    IF a * b > U64_MAX
    THEN IF overflow_checks THEN None ELSE (a * b) % (U64_MAX + 1)
    ELSE a * b

\* ------------------------------------------------------------- state.rs
\* enum Guess: ordinal -> pocket of the 38 straight-up variants
\* (Zero, DoubleZero, R1, B2, ..., R36).
StraightPocket(g) == IF g = 0 THEN 0 ELSE IF g = 1 THEN 37 ELSE g - 1

red_numbers == {1, 3, 5, 7, 9, 12, 14, 16, 18, 19, 21, 23, 25, 27, 30, 32, 34, 36}
is_red(number) == number \in red_numbers

\* Wins whose Odd arm does not exclude the pocket 37.
Wins_OddOn37(g, outcome) ==
    CASE g \in 0..37 -> outcome = StraightPocket(g)
      [] g = 38 -> outcome # 0 /\ outcome # 37 /\ is_red(outcome)
      [] g = 39 -> outcome # 0 /\ outcome # 37 /\ ~is_red(outcome)
      [] g = 40 -> outcome # 0 /\ outcome % 2 = 0
      [] g = 41 -> outcome % 2 = 1
      [] g = 42 -> outcome # 37 /\ outcome % 3 = 1
      [] g = 43 -> outcome % 3 = 2
      [] g = 44 -> outcome # 0 /\ outcome % 3 = 0
      [] g = 45 -> outcome > 0 /\ outcome <= 12
      [] g = 46 -> outcome > 12 /\ outcome <= 24
      [] g = 47 -> outcome > 24 /\ outcome < 37
      [] g = 48 -> outcome > 0 /\ outcome <= 18
      [] g = 49 -> outcome > 18 /\ outcome < 37

\* The condition of each match arm of get_payout.
Wins(g, outcome) ==
    CASE g \in 0..37 -> outcome = StraightPocket(g)
      [] g = 38 -> outcome # 0 /\ outcome # 37 /\ is_red(outcome)
      [] g = 39 -> outcome # 0 /\ outcome # 37 /\ ~is_red(outcome)
      [] g = 40 -> outcome # 0 /\ outcome % 2 = 0
      [] g = 41 -> outcome # 37 /\ outcome % 2 = 1
      [] g = 42 -> outcome # 37 /\ outcome % 3 = 1
      [] g = 43 -> outcome % 3 = 2
      [] g = 44 -> outcome # 0 /\ outcome % 3 = 0
      [] g = 45 -> outcome > 0 /\ outcome <= 12
      [] g = 46 -> outcome > 12 /\ outcome <= 24
      [] g = 47 -> outcome > 24 /\ outcome < 37
      [] g = 48 -> outcome > 0 /\ outcome <= 18
      [] g = 49 -> outcome > 18 /\ outcome < 37

\* Multiplier with a straight-up factor of 37.
Multiplier_Generous(g) ==
    CASE g \in 0..37 -> 37
      [] g \in {38, 39, 40, 41, 48, 49} -> 2
      [] g \in 42..47 -> 3

\* The factor each arm multiplies self.amount by.
Multiplier(g) ==
    CASE g \in 0..37 -> 36
      [] g \in {38, 39, 40, 41, 48, 49} -> 2
      [] g \in 42..47 -> 3

\* RouletteGuess::get_payout; None when the multiplication panics.
get_payout(g, amount, outcome, overflow_checks) ==
    IF Wins(g, outcome) THEN unchecked_mul(amount, Multiplier(g), overflow_checks) ELSE 0

\* ------------------------------------------------- collaborators' checks
assert_keys_equal(a, b) == a = b
assert_is_ata(token_account, wallet) == token_account = Ata(wallet)
assert_signer(info, caller) == info = caller

\* spl_token transfer fails when the source holds less than `amount`
\* (insufficient); otherwise it moves `amount`.
insufficient(b, source, amount) == b[source] < amount
transfer(b, source, destination, amount) ==
    IF source = destination THEN b
    ELSE [b EXCEPT ![source] = @ - amount, ![destination] = @ + amount]

\* An account no instruction has allocated yet holds no data.
NoLockedGuess ==
    [allocated |-> FALSE, owner |-> Owner, vault |-> "", slot |-> 0, active |-> FALSE,
     active_size |-> 0, guesses |-> ZeroGuesses]
NoRNG == [allocated |-> FALSE, version |-> "Uninitalized", value |-> 0, slot |-> 0]

NewHoneypot(owner_info, cfg) ==
    [allocated |-> TRUE, owner |-> owner_info, tick_size |-> cfg.tick_size,
     max_amount |-> cfg.max_amount, minimum_bank_size |-> cfg.minimum_bank_size]

\* What an instruction leaves behind: its ProgramResult and the ledger.
Outcome(res, h, l, b, r) == [res |-> res, honeypot |-> h, locked |-> l, bal |-> b, rng |-> r]
\* Err(e): the transaction aborts and nothing is written.
Err(e) == Outcome(e, honeypot, locked, bal, rng)

\* ---------------------------------------------------------- processor.rs
\* initialize: allocates the RNG account of the payer.
initialize ==
    IF rng.allocated THEN Err("AccountAlreadyInitialized")
    ELSE Outcome("Ok", honeypot, locked, bal, [NoRNG EXCEPT !.allocated = TRUE])

\* sample: stores a fresh (value, slot) of the oracle in the RNG account.
sample(random_sample, slot) ==
    IF ~rng.allocated THEN Err("BorshIoError")
    ELSE Outcome("Ok", honeypot, locked, bal,
                 [rng EXCEPT !.version = IF @ = "Uninitalized" THEN "RNGV1" ELSE @,
                             !.value = random_sample, !.slot = slot])

\* initialize_honeypot: allocates the Honeypot and its Vault at the addresses
\* derived from the configuration; the allocation fails on an account in use.
initialize_honeypot(owner_info, cfg) ==
    IF honeypot.allocated THEN Err("AccountAlreadyInUse")
    ELSE Outcome("Ok",
                 NewHoneypot(owner_info, cfg),
                 locked, bal, rng)

\* withdraw_from_honeypot without the check of the owner's signature.
withdraw_from_honeypot_Unsigned(caller, owner_info, owner_token_account, amount_to_withdraw) ==
    LET paid == transfer(bal, VaultAcct, owner_token_account, amount_to_withdraw)
    IN  IF ~honeypot.allocated THEN Err("BorshIoError")
        ELSE IF ~assert_is_ata(owner_token_account, owner_info) THEN Err("IncorrectOwner")
        ELSE IF ~assert_keys_equal(honeypot.owner, owner_info) THEN Err("PublicKeyMismatch")
        ELSE IF insufficient(bal, VaultAcct, amount_to_withdraw)
             THEN Err("TokenInsufficientFunds")
        ELSE Outcome("Ok", honeypot, locked, paid, rng)

\* withdraw_from_honeypot
withdraw_from_honeypot(caller, owner_info, owner_token_account, amount_to_withdraw) ==
    LET paid == transfer(bal, VaultAcct, owner_token_account, amount_to_withdraw)
    IN  IF ~honeypot.allocated THEN Err("BorshIoError")
        ELSE IF ~assert_is_ata(owner_token_account, owner_info) THEN Err("IncorrectOwner")
        ELSE IF ~assert_signer(owner_info, caller) THEN Err("MissingRequiredSignature")
        ELSE IF ~assert_keys_equal(honeypot.owner, owner_info) THEN Err("PublicKeyMismatch")
        ELSE IF insufficient(bal, VaultAcct, amount_to_withdraw)
             THEN Err("TokenInsufficientFunds")
        ELSE Outcome("Ok", honeypot, locked, paid, rng)

\* initialize_guess_account whose allocation succeeds on a record in use.
initialize_guess_account_Reinit(gambler, guess_account) ==
    IF ~honeypot.allocated THEN Err("BorshIoError")
    ELSE IF ~assert_keys_equal(gambler, guess_account) THEN Err("PublicKeyMismatch")
    ELSE Outcome("Ok", honeypot,
                 [locked EXCEPT ![guess_account] =
                     [allocated |-> TRUE, owner |-> gambler, vault |-> VaultAcct,
                      slot |-> 0, active |-> FALSE, active_size |-> 0,
                      guesses |-> ZeroGuesses]],
                 bal, rng)

\* initialize_guess_account: allocates the LockedGuess record derived for
\* (gambler, vault); guess_account names the player whose derived address the
\* caller supplied.
initialize_guess_account(gambler, guess_account) ==
    IF ~honeypot.allocated THEN Err("BorshIoError")
    ELSE IF ~assert_keys_equal(gambler, guess_account) THEN Err("PublicKeyMismatch")
    ELSE IF locked[guess_account].allocated THEN Err("AccountAlreadyInUse")
    ELSE Outcome("Ok", honeypot,
                 [locked EXCEPT ![guess_account] =
                     [allocated |-> TRUE, owner |-> gambler, vault |-> VaultAcct,
                      slot |-> 0, active |-> FALSE, active_size |-> 0,
                      guesses |-> ZeroGuesses]],
                 bal, rng)

\* PlaceLoop with a wrapping sum.
RECURSIVE PlaceLoop_Wrapping(_, _, _, _)
PlaceLoop_Wrapping(stored, guesses, k, total_amount) ==
    IF k > Len(guesses) THEN [guesses |-> stored, total_amount |-> total_amount]
    ELSE LET guess == guesses[k]
             sum == (total_amount + guess.amount) % (U64_MAX + 1)
         IN  PlaceLoop_Wrapping([stored EXCEPT ![guess.guess] = guess.amount], guesses, k + 1, sum)

\* The loop of place_guesses over the Vec<RouletteGuess>, from its k-th
\* element: every element overwrites its slot and is added to total_amount.
RECURSIVE PlaceLoop(_, _, _, _)
PlaceLoop(stored, guesses, k, total_amount) ==
    IF k > Len(guesses) THEN [guesses |-> stored, total_amount |-> total_amount]
    ELSE LET guess == guesses[k]
             sum == checked_add(total_amount, guess.amount)
         IN  IF sum = None THEN [guesses |-> stored, total_amount |-> None]
             ELSE PlaceLoop([stored EXCEPT ![guess.guess] = guess.amount], guesses, k + 1, sum)

\* LockGuesses without the write of the commit slot.
LockGuesses_NoSlot(locked_guesses, slot, guesses, total_tokens) ==
    [locked_guesses EXCEPT !.active = TRUE, !.guesses = guesses,
                           !.active_size = total_tokens]

\* LockGuesses without the write of active_size.
LockGuesses_NoSize(locked_guesses, slot, guesses, total_tokens) ==
    [locked_guesses EXCEPT !.slot = slot, !.active = TRUE, !.guesses = guesses]

\* The record place_guesses writes: the commit slot, the active flag, the
\* stakes of the loop and the tokens charged.
LockGuesses(locked_guesses, slot, guesses, total_tokens) ==
    [locked_guesses EXCEPT !.slot = slot, !.active = TRUE, !.guesses = guesses,
                           !.active_size = total_tokens]

\* CommitError with the cap checked before the floor.
CommitError_CapFirst(locked_guesses, total_amount, total_tokens, vault_amount) ==
    IF locked_guesses.active THEN "ActiveSpin"
    ELSE IF total_amount = None THEN "NumericalOverflow"
    ELSE IF total_tokens = None THEN "NumericalOverflow"
    ELSE IF total_tokens > honeypot.max_amount THEN "AmountTooLarge"
    ELSE IF vault_amount <= honeypot.minimum_bank_size THEN "InsufficientFunds"
    ELSE ""

\* CommitError with the floor check turned into `<`.
CommitError_FloorExclusive(locked_guesses, total_amount, total_tokens, vault_amount) ==
    IF locked_guesses.active THEN "ActiveSpin"
    ELSE IF total_amount = None THEN "NumericalOverflow"
    ELSE IF total_tokens = None THEN "NumericalOverflow"
    ELSE IF vault_amount < honeypot.minimum_bank_size THEN "InsufficientFunds"
    ELSE IF total_tokens > honeypot.max_amount THEN "AmountTooLarge"
    ELSE ""

\* CommitError without the check of the active flag.
CommitError_NoActive(locked_guesses, total_amount, total_tokens, vault_amount) ==
    IF total_amount = None THEN "NumericalOverflow"
    ELSE IF total_tokens = None THEN "NumericalOverflow"
    ELSE IF vault_amount <= honeypot.minimum_bank_size THEN "InsufficientFunds"
    ELSE IF total_tokens > honeypot.max_amount THEN "AmountTooLarge"
    ELSE ""

\* The checks of place_guesses between the account assertions and the
\* transfer, in their order: the error returned, or "" when all pass.
CommitError(locked_guesses, total_amount, total_tokens, vault_amount) ==
    IF locked_guesses.active THEN "ActiveSpin"
    ELSE IF total_amount = None THEN "NumericalOverflow"
    ELSE IF total_tokens = None THEN "NumericalOverflow"
    ELSE IF vault_amount <= honeypot.minimum_bank_size THEN "InsufficientFunds"
    ELSE IF total_tokens > honeypot.max_amount THEN "AmountTooLarge"
    ELSE ""

\* place_guesses that has written the record when the transfer fails.
place_guesses_WritesFirst(caller, gambler, gambler_token_account, guess_account, guesses) ==
    LET locked_guesses == locked[guess_account]
        loop == PlaceLoop(locked_guesses.guesses, guesses, 1, 0)
        total_tokens == IF loop.total_amount = None THEN None
                        ELSE checked_mul(loop.total_amount, honeypot.tick_size)
        error == CommitError(locked_guesses, loop.total_amount, total_tokens, bal[VaultAcct])
        paid == transfer(bal, gambler_token_account, VaultAcct, total_tokens)
        written == [locked EXCEPT ![guess_account] =
                       LockGuesses(@, clock, loop.guesses, total_tokens)]
    IN  IF ~honeypot.allocated \/ ~locked_guesses.allocated THEN Err("BorshIoError")
        ELSE IF ~assert_keys_equal(VaultAcct, locked_guesses.vault) THEN Err("PublicKeyMismatch")
        ELSE IF ~assert_is_ata(gambler_token_account, gambler) THEN Err("IncorrectOwner")
        ELSE IF error # "" THEN Err(error)
        ELSE IF ~assert_signer(gambler, caller) THEN Err("MissingRequiredSignature")
        ELSE IF insufficient(bal, gambler_token_account, total_tokens)
             THEN Outcome("TokenInsufficientFunds", honeypot, written, bal, rng)
        ELSE Outcome("Ok", honeypot, written, paid, rng)

\* place_guesses: `caller` signs the transaction, `gambler` pays from
\* gambler_token_account, guess_account is the record supplied.
place_guesses(caller, gambler, gambler_token_account, guess_account, guesses) ==
    LET locked_guesses == locked[guess_account]
        loop == PlaceLoop(locked_guesses.guesses, guesses, 1, 0)
        total_tokens == IF loop.total_amount = None THEN None
                        ELSE checked_mul(loop.total_amount, honeypot.tick_size)
        error == CommitError(locked_guesses, loop.total_amount, total_tokens, bal[VaultAcct])
        paid == transfer(bal, gambler_token_account, VaultAcct, total_tokens)
    IN  IF ~honeypot.allocated \/ ~locked_guesses.allocated THEN Err("BorshIoError")
        ELSE IF ~assert_keys_equal(VaultAcct, locked_guesses.vault) THEN Err("PublicKeyMismatch")
        ELSE IF ~assert_is_ata(gambler_token_account, gambler) THEN Err("IncorrectOwner")
        ELSE IF error # "" THEN Err(error)
        ELSE IF ~assert_signer(gambler, caller) THEN Err("MissingRequiredSignature")
        ELSE IF insufficient(bal, gambler_token_account, total_tokens)
             THEN Err("TokenInsufficientFunds")
        ELSE Outcome("Ok", honeypot,
                     [locked EXCEPT ![guess_account] =
                         LockGuesses(@, clock, loop.guesses, total_tokens)],
                     paid, rng)

\* Reset that leaves the stakes in place.
Reset_KeepsStakes(locked_guesses) ==
    [locked_guesses EXCEPT !.active = FALSE, !.active_size = 0]

\* Reset that leaves active_size in place.
Reset_KeepsSize(locked_guesses) ==
    [locked_guesses EXCEPT !.active = FALSE, !.guesses = ZeroGuesses]

\* Reset that clears the stakes and leaves the record active.
Reset_StaysActive(locked_guesses) ==
    [locked_guesses EXCEPT !.active_size = 0, !.guesses = ZeroGuesses]

\* The record spin and try_cancel write: Idle, nothing staked.
Reset(locked_guesses) ==
    [locked_guesses EXCEPT !.active = FALSE, !.active_size = 0, !.guesses = ZeroGuesses]

\* WindowError whose window never exceeds one slot.
WindowError_OneSlot(slot, guess_slot, tolerance) ==
    IF slot <= guess_slot THEN "InvalidSlot"
    ELSE IF checked_add(guess_slot, tolerance) = None THEN "NumericalOverflow"
    ELSE IF slot > checked_add(guess_slot, tolerance) \/ slot > guess_slot + 1
         THEN "InvalidSlot"
    ELSE ""

\* WindowError that lets the commit slot itself through.
WindowError_SameSlot(slot, guess_slot, tolerance) ==
    IF slot < guess_slot THEN "InvalidSlot"
    ELSE IF checked_add(guess_slot, tolerance) = None THEN "NumericalOverflow"
    ELSE IF slot > checked_add(guess_slot, tolerance) THEN "InvalidSlot"
    ELSE ""

\* The window check of spin on the sampled slot: the error returned, or ""
\* when the slot is inside the window.
WindowError(slot, guess_slot, tolerance) ==
    IF slot <= guess_slot THEN "InvalidSlot"
    ELSE IF checked_add(guess_slot, tolerance) = None THEN "NumericalOverflow"
    ELSE IF slot > checked_add(guess_slot, tolerance) THEN "InvalidSlot"
    ELSE ""

\* The loop of spin over the 64 stake slots, from slot i: the reward so far,
\* or the error that ends it.
RECURSIVE SpinLoop(_, _, _, _, _)
SpinLoop(guesses, outcome, i, reward, overflow_checks) ==
    IF i >= NumSlots THEN [err |-> "", reward |-> reward]
    ELSE IF guesses[i] = 0 THEN SpinLoop(guesses, outcome, i + 1, reward, overflow_checks)
    ELSE IF i >= NumGuessKinds THEN [err |-> "BorshIoError", reward |-> reward]
    ELSE LET current_payout == get_payout(i, guesses[i], outcome, overflow_checks)
             sum == checked_add(reward, current_payout)
         IN  IF current_payout = None THEN [err |-> "Panic", reward |-> reward]
             ELSE IF sum = None THEN [err |-> "InvalidInstructionData", reward |-> reward]
             ELSE SpinLoop(guesses, outcome, i + 1, sum, overflow_checks)

\* The bundling guard of spin, on the u16 values read from the instructions
\* sysvar; num_instructions - 1 is a u16 subtraction (a transaction that
\* holds this instruction has num_instructions >= 1, so it never wraps).
SuspiciousBundle(current_instruction, num_instructions) ==
    current_instruction < (num_instructions - 1) % (2 ^ 16) /\ num_instructions = 0

\* spin without the check that the record is active.
spin_NoActiveCheck(gambler, gambler_token_account, guess_account, tolerance, random_sample, slot, current_instruction, num_instructions, overflow_checks) ==
    LET locked_guesses == locked[guess_account]
        window == WindowError(slot, locked_guesses.slot, tolerance)
        rng1 == [rng EXCEPT !.version = IF @ = "Uninitalized" THEN "RNGV1" ELSE @,
                            !.value = random_sample, !.slot = slot]
        outcome == rng1.value % NumPockets
        loop == SpinLoop(locked_guesses.guesses, outcome, 0, 0, overflow_checks)
        total_reward == checked_mul(loop.reward, honeypot.tick_size)
        paid == IF total_reward > 0
                THEN transfer(bal, VaultAcct, gambler_token_account, total_reward)
                ELSE bal
    IN  IF ~assert_is_ata(gambler_token_account, gambler) THEN Err("IncorrectOwner")
        ELSE IF SuspiciousBundle(current_instruction, num_instructions)
             THEN Err("SuspiciousTransaction")
        ELSE IF ~rng.allocated \/ ~locked_guesses.allocated \/ ~honeypot.allocated
             THEN Err("BorshIoError")
        ELSE IF ~assert_keys_equal(VaultAcct, locked_guesses.vault) THEN Err("PublicKeyMismatch")
        ELSE IF ~assert_keys_equal(gambler, guess_account) THEN Err("PublicKeyMismatch")
        ELSE IF window # "" THEN Err(window)
        ELSE IF loop.err # "" THEN Err(loop.err)
        ELSE IF total_reward = None THEN Err("NumericalOverflow")
        ELSE IF total_reward > 0 /\ insufficient(bal, VaultAcct, total_reward)
             THEN Err("TokenInsufficientFunds")
        ELSE Outcome("Ok", honeypot,
                     [locked EXCEPT ![guess_account] = Reset(@)],
                     paid, rng1)

\* spin: (random_sample, slot) is what the oracle returned for `tolerance`.
spin(gambler, gambler_token_account, guess_account, tolerance, random_sample, slot, current_instruction, num_instructions, overflow_checks) ==
    LET locked_guesses == locked[guess_account]
        window == WindowError(slot, locked_guesses.slot, tolerance)
        rng1 == [rng EXCEPT !.version = IF @ = "Uninitalized" THEN "RNGV1" ELSE @,
                            !.value = random_sample, !.slot = slot]
        outcome == rng1.value % NumPockets
        loop == SpinLoop(locked_guesses.guesses, outcome, 0, 0, overflow_checks)
        total_reward == checked_mul(loop.reward, honeypot.tick_size)
        paid == IF total_reward > 0
                THEN transfer(bal, VaultAcct, gambler_token_account, total_reward)
                ELSE bal
    IN  IF ~assert_is_ata(gambler_token_account, gambler) THEN Err("IncorrectOwner")
        ELSE IF SuspiciousBundle(current_instruction, num_instructions)
             THEN Err("SuspiciousTransaction")
        ELSE IF ~rng.allocated \/ ~locked_guesses.allocated \/ ~honeypot.allocated
             THEN Err("BorshIoError")
        ELSE IF ~assert_keys_equal(VaultAcct, locked_guesses.vault) THEN Err("PublicKeyMismatch")
        ELSE IF ~assert_keys_equal(gambler, guess_account) THEN Err("PublicKeyMismatch")
        ELSE IF ~locked_guesses.active THEN Err("Inactive")
        ELSE IF window # "" THEN Err(window)
        ELSE IF loop.err # "" THEN Err(loop.err)
        ELSE IF total_reward = None THEN Err("NumericalOverflow")
        ELSE IF total_reward > 0 /\ insufficient(bal, VaultAcct, total_reward)
             THEN Err("TokenInsufficientFunds")
        ELSE Outcome("Ok", honeypot,
                     [locked EXCEPT ![guess_account] = Reset(@)],
                     paid, rng1)

\* try_cancel that refuses an Idle record.
try_cancel_IdleFails(caller, gambler, gambler_token_account, guess_account) ==
    LET locked_guesses == locked[guess_account]
        paid == transfer(bal, VaultAcct, gambler_token_account, locked_guesses.active_size)
    IN  IF ~locked_guesses.allocated \/ ~honeypot.allocated THEN Err("BorshIoError")
        ELSE IF ~locked_guesses.active THEN Err("Inactive")
        ELSE IF ~assert_is_ata(gambler_token_account, gambler) THEN Err("IncorrectOwner")
        ELSE IF ~assert_keys_equal(VaultAcct, locked_guesses.vault) THEN Err("PublicKeyMismatch")
        ELSE IF ~assert_keys_equal(gambler, guess_account) THEN Err("PublicKeyMismatch")
        ELSE IF insufficient(bal, VaultAcct, locked_guesses.active_size)
             THEN Err("TokenInsufficientFunds")
        ELSE Outcome("Ok", honeypot, [locked EXCEPT ![guess_account] = Reset(@)], paid, rng)

\* try_cancel whose reset reaches every record.
try_cancel_ResetsAll(caller, gambler, gambler_token_account, guess_account) ==
    LET locked_guesses == locked[guess_account]
        paid == transfer(bal, VaultAcct, gambler_token_account, locked_guesses.active_size)
    IN  IF ~locked_guesses.allocated \/ ~honeypot.allocated THEN Err("BorshIoError")
        ELSE IF ~locked_guesses.active THEN Outcome("Ok", honeypot, locked, bal, rng)
        ELSE IF ~assert_is_ata(gambler_token_account, gambler) THEN Err("IncorrectOwner")
        ELSE IF ~assert_keys_equal(VaultAcct, locked_guesses.vault) THEN Err("PublicKeyMismatch")
        ELSE IF ~assert_keys_equal(gambler, guess_account) THEN Err("PublicKeyMismatch")
        ELSE IF insufficient(bal, VaultAcct, locked_guesses.active_size)
             THEN Err("TokenInsufficientFunds")
        ELSE Outcome("Ok", honeypot,
                     [p \in Players |-> IF locked[p].allocated THEN Reset(locked[p])
                                        ELSE locked[p]],
                     paid, rng)

\* try_cancel that refunds to whatever token account it is given.
try_cancel_AnyAccount(caller, gambler, gambler_token_account, guess_account) ==
    LET locked_guesses == locked[guess_account]
        paid == transfer(bal, VaultAcct, gambler_token_account, locked_guesses.active_size)
    IN  IF ~locked_guesses.allocated \/ ~honeypot.allocated THEN Err("BorshIoError")
        ELSE IF ~locked_guesses.active THEN Outcome("Ok", honeypot, locked, bal, rng)
        ELSE IF ~assert_keys_equal(VaultAcct, locked_guesses.vault) THEN Err("PublicKeyMismatch")
        ELSE IF ~assert_keys_equal(gambler, guess_account) THEN Err("PublicKeyMismatch")
        ELSE IF insufficient(bal, VaultAcct, locked_guesses.active_size)
             THEN Err("TokenInsufficientFunds")
        ELSE Outcome("Ok", honeypot,
                     [locked EXCEPT ![guess_account] = Reset(@)],
                     paid, rng)

\* try_cancel: `caller` signs the transaction; the handler asks for no
\* signature.
try_cancel(caller, gambler, gambler_token_account, guess_account) ==
    LET locked_guesses == locked[guess_account]
        paid == transfer(bal, VaultAcct, gambler_token_account, locked_guesses.active_size)
    IN  IF ~locked_guesses.allocated \/ ~honeypot.allocated THEN Err("BorshIoError")
        ELSE IF ~locked_guesses.active THEN Outcome("Ok", honeypot, locked, bal, rng)
        ELSE IF ~assert_is_ata(gambler_token_account, gambler) THEN Err("IncorrectOwner")
        ELSE IF ~assert_keys_equal(VaultAcct, locked_guesses.vault) THEN Err("PublicKeyMismatch")
        ELSE IF ~assert_keys_equal(gambler, guess_account) THEN Err("PublicKeyMismatch")
        ELSE IF insufficient(bal, VaultAcct, locked_guesses.active_size)
             THEN Err("TokenInsufficientFunds")
        ELSE Outcome("Ok", honeypot,
                     [locked EXCEPT ![guess_account] = Reset(@)],
                     paid, rng)

\* ------------------------------------------------------------ the ledger
\* No RouletteGuess has been evaluated.
NoPayout ==
    [guess |-> 0, amount |-> 0, outcome |-> 0, overflow_checks |-> TRUE,
     applied |-> FALSE, value |-> 0]

\* A record with its stakes listed at the non-zero slots only.
Staked(locked_guesses) ==
    LET g == locked_guesses.guesses
    IN  [locked_guesses EXCEPT !.guesses = [i \in {j \in DOMAIN g : g[j] # 0} |-> g[i]]]

\* What a spin of player b's record by b, alone in its transaction, gives in
\* the present state: its result, the record it leaves and what it pays to b
\* (the RNG account, which every spin overwrites with its own sample, aside).
SpinResult(b, random_sample, overflow_checks) ==
    LET out == spin(b, Ata(b), b, 1, random_sample, clock, 0, 1, overflow_checks)
    IN  [res |-> out.res, record |-> Staked(out.locked[b]),
         paid |-> out.bal[Ata(b)] - bal[Ata(b)]]

\* The same for a try_cancel of b's record by b.
CancelResult(b) ==
    LET out == try_cancel(b, b, Ata(b), b)
    IN  [res |-> out.res, record |-> Staked(out.locked[b]),
         paid |-> out.bal[Ata(b)] - bal[Ata(b)]]

\* Player b's record and what resolving or cancelling it gives now.
ResultsFor(b) ==
    [record |-> Staked(locked[b]),
     cancel |-> CancelResult(b),
     resolve |-> [s \in SampleValues \X BOOLEAN |-> SpinResult(b, s[1], s[2])]]

\* The players other than the one whose record an instruction has written,
\* who hold a Committed record.
OthersCommitted(op, guess_account, out) ==
    IF op \in {"PlaceGuesses", "Spin", "TryCancel"} /\ out.locked # locked
    THEN {b \in Players \ {guess_account} : locked[b].allocated /\ locked[b].active}
    ELSE {}

\* The transaction commits what the instruction left behind; an instruction
\* that returns Err aborts it and leaves no trace on the ledger.
Commit(op, guess_account, out) ==
    IF out.res = "Ok"
    THEN /\ honeypot' = out.honeypot
         /\ locked' = out.locked
         /\ bal' = out.bal
         /\ rng' = out.rng
         /\ last' = [op |-> op, guess_account |-> guess_account,
                     active |-> guess_account \in Players /\ locked[guess_account].active,
                     before |-> [b \in OthersCommitted(op, guess_account, out) |->
                                    ResultsFor(b)]]
         /\ UNCHANGED <<clock, payout>>
    ELSE UNCHANGED vars

\* The house has deployed one Honeypot, funded its Vault and allocated the
\* RNG account; no player has a LockedGuess record yet.
Init ==
    /\ \E cfg \in Configs : honeypot = NewHoneypot(Owner, cfg)
    /\ locked = [p \in Players |-> NoLockedGuess]
    /\ bal = [a \in TokenAccounts |->
                IF a = VaultAcct THEN HouseFunds
                ELSE IF a = Ata(Owner) THEN 0 ELSE InitialPlayer]
    /\ rng = [NoRNG EXCEPT !.allocated = TRUE]
    /\ clock = 0
    /\ last = [op |-> "None", guess_account |-> "", active |-> FALSE, before |-> << >>]
    /\ payout = NoPayout

\* The actions take the set ps of players that act in the specification.
Signers(ps) == ps \cup {Owner}
Holdings(ps) == {Ata(w) : w \in Signers(ps)}

Initialize == Commit("Initialize", "", initialize)

Sample ==
    \E random_sample \in SampleValues :
        Commit("Sample", "", sample(random_sample, clock))

InitializeHoneypot ==
    \E cfg \in Configs : Commit("InitializeHoneypot", "", initialize_honeypot(Owner, cfg))

WithdrawFromHoneypot(ps) ==
    \E caller \in Signers(ps), owner_info \in Signers(ps), amount \in WithdrawAmounts :
        Commit("WithdrawFromHoneypot", "",
               withdraw_from_honeypot(caller, owner_info, Ata(owner_info), amount))

InitializeGuessAccount(ps) ==
    \E gambler \in ps, guess_account \in ps :
        Commit("InitializeGuessAccount", guess_account,
               initialize_guess_account(gambler, guess_account))

PlaceGuesses(ps) ==
    \E caller \in Signers(ps), gambler \in ps, gta \in Holdings(ps),
       guess_account \in ps, guesses \in GuessLists :
        Commit("PlaceGuesses", guess_account,
               place_guesses(caller, gambler, gta, guess_account, guesses))

Spin(ps) ==
    \E gambler \in ps, gta \in Holdings(ps), guess_account \in ps,
       tolerance \in Tolerances, random_sample \in SampleValues,
       num_instructions \in 1..MaxIx, overflow_checks \in BOOLEAN :
        \E current_instruction \in 0..(num_instructions - 1) :
            Commit("Spin", guess_account,
                   spin(gambler, gta, guess_account, tolerance, random_sample, clock,
                        current_instruction, num_instructions, overflow_checks))

TryCancel(ps) ==
    \E caller \in Signers(ps), gambler \in ps, gta \in Holdings(ps), guess_account \in ps :
        Commit("TryCancel", guess_account, try_cancel(caller, gambler, gta, guess_account))

\* The ledger's slot advances.
Tick ==
    /\ clock < MaxSlot
    /\ clock' = clock + 1
    /\ last' = [op |-> "Tick", guess_account |-> "", active |-> FALSE, before |-> << >>]
    /\ UNCHANGED <<honeypot, locked, bal, rng, payout>>

\* One player and the house.
Solo == {"p1"}

Next ==
    \/ Initialize
    \/ Sample
    \/ InitializeHoneypot
    \/ WithdrawFromHoneypot(Solo)
    \/ InitializeGuessAccount(Solo)
    \/ PlaceGuesses(Solo)
    \/ Spin(Solo)
    \/ TryCancel(Solo)
    \/ Tick

Spec == Init /\ [][Next]_vars

\* The same instructions with a Vault that can pay a straight-up win.
RichFunds == 40

InitRich ==
    /\ \E cfg \in Configs : honeypot = NewHoneypot(Owner, cfg)
    /\ locked = [p \in Players |-> NoLockedGuess]
    /\ bal = [a \in TokenAccounts |->
                IF a = VaultAcct THEN RichFunds
                ELSE IF a = Ata(Owner) THEN 0 ELSE InitialPlayer]
    /\ rng = [NoRNG EXCEPT !.allocated = TRUE]
    /\ clock = 0
    /\ last = [op |-> "None", guess_account |-> "", active |-> FALSE, before |-> << >>]
    /\ payout = NoPayout

\* The player's instructions; the house leaves the Vault alone.
NextRich ==
    \/ InitializeGuessAccount(Solo)
    \/ PlaceGuesses(Solo)
    \/ Spin(Solo)
    \/ TryCancel(Solo)
    \/ Tick

SpecRich == InitRich /\ [][NextRich]_vars

\* Two players and the house.
Duo == Players

\* With two players the gambler signs and pays from its own holding account,
\* and supplies either player's record; the stakes are on Red or on R5.
DuoLists == { <<[guess |-> 38, amount |-> 1]>>, <<[guess |-> 6, amount |-> 2]>> }

PlaceGuessesDuo ==
    \E gambler \in Duo, guess_account \in Duo, guesses \in DuoLists :
        Commit("PlaceGuesses", guess_account,
               place_guesses(gambler, gambler, Ata(gambler), guess_account, guesses))

SpinDuo ==
    \E gambler \in Duo, guess_account \in Duo, random_sample \in SampleValues,
       overflow_checks \in BOOLEAN :
        Commit("Spin", guess_account,
               spin(gambler, Ata(gambler), guess_account, 1, random_sample, clock, 0, 1,
                    overflow_checks))

\* Anyone cancels, for either gambler and either record, towards the
\* gambler's own holding account.
TryCancelDuo ==
    \E caller \in Signers(Duo), gambler \in Duo, guess_account \in Duo :
        Commit("TryCancel", guess_account,
               try_cancel(caller, gambler, Ata(gambler), guess_account))

\* The owner withdraws.
WithdrawDuo ==
    \E amount \in WithdrawAmounts :
        Commit("WithdrawFromHoneypot", "",
               withdraw_from_honeypot(Owner, Owner, Ata(Owner), amount))

\* The instructions on the records and the Vault; the RNG account changes
\* with the spins only.
NextDuo ==
    \/ WithdrawDuo
    \/ InitializeGuessAccount(Duo)
    \/ PlaceGuessesDuo
    \/ SpinDuo
    \/ TryCancelDuo
    \/ Tick

SpecDuo == Init /\ [][NextDuo]_vars

\* Two players, each committing to and spinning its own record.
PlaceGuessesPair ==
    \E gambler \in Duo, guesses \in DuoLists :
        Commit("PlaceGuesses", gambler,
               place_guesses(gambler, gambler, Ata(gambler), gambler, guesses))

SpinPair ==
    \E gambler \in Duo, random_sample \in SampleValues, overflow_checks \in BOOLEAN :
        Commit("Spin", gambler,
               spin(gambler, Ata(gambler), gambler, 1, random_sample, clock, 0, 1,
                    overflow_checks))

NextPair ==
    \/ WithdrawDuo
    \/ InitializeGuessAccount(Duo)
    \/ PlaceGuessesPair
    \/ SpinPair
    \/ TryCancelDuo
    \/ Tick

SpecPair == Init /\ [][NextPair]_vars

\* ------------------------------------------------- get_payout on its own
\* The amounts around the largest ones whose product with 36, 3 and 2 fits u64.
PayoutAmounts ==
    {0, 1, U64_MAX} \cup UNION { {U64_MAX \div m, U64_MAX \div m + 1} : m \in {36, 3, 2} }

\* A RouletteGuess of every kind and an outcome of spin, not evaluated yet.
PayoutInit ==
    /\ honeypot = NewHoneypot(Owner, CHOOSE cfg \in Configs : cfg.tick_size = 1)
    /\ locked = [p \in Players |-> NoLockedGuess]
    /\ bal = [a \in TokenAccounts |->
                IF a = VaultAcct THEN HouseFunds
                ELSE IF a = Ata(Owner) THEN 0 ELSE InitialPlayer]
    /\ rng = [NoRNG EXCEPT !.allocated = TRUE]
    /\ clock = 0
    /\ last = [op |-> "None", guess_account |-> "", active |-> FALSE, before |-> << >>]
    /\ \E g \in 0..(NumGuessKinds - 1), amount \in PayoutAmounts,
          outcome \in 0..(NumPockets - 1), overflow_checks \in BOOLEAN :
            payout = [guess |-> g, amount |-> amount, outcome |-> outcome,
                      overflow_checks |-> overflow_checks, applied |-> FALSE, value |-> 0]

GetPayout ==
    /\ ~payout.applied
    /\ payout' = [payout EXCEPT
                     !.applied = TRUE,
                     !.value = get_payout(payout.guess, payout.amount, payout.outcome,
                                          payout.overflow_checks)]
    /\ UNCHANGED <<honeypot, locked, bal, rng, clock, last>>

PayoutNext == GetPayout

PayoutSpec == PayoutInit /\ [][PayoutNext]_vars

\* =================================================================== claims
\* Unbounded arithmetic the claims are stated in.
RECURSIVE SumAmounts(_)
SumAmounts(guesses) ==
    IF guesses = <<>> THEN 0 ELSE Head(guesses).amount + SumAmounts(Tail(guesses))
RECURSIVE SumFrom(_, _)
SumFrom(stakes, i) == IF i >= NumSlots THEN 0 ELSE stakes[i] + SumFrom(stakes, i + 1)
SumStakes(stakes) == SumFrom(stakes, 0)

IsIdle(lg) == ~lg.active /\ lg.active_size = 0 /\ lg.guesses = ZeroGuesses
Records == {p \in Players : locked[p].allocated}

\* The preconditions C1 lists for a commit by `gambler` on its own record:
\* the record is Idle, the Vault holds more than the floor, and neither the
\* sum of the amounts nor sum * tick_size overflows or exceeds max_amount.
C1_Pre(gambler, guesses) ==
    /\ locked[gambler].allocated
    /\ ~locked[gambler].active
    /\ bal[VaultAcct] > honeypot.minimum_bank_size
    /\ SumAmounts(guesses) <= U64_MAX
    /\ SumAmounts(guesses) * honeypot.tick_size <= U64_MAX
    /\ SumAmounts(guesses) * honeypot.tick_size <= honeypot.max_amount

\* What C1 says the commit leaves behind.
C1_Post(gambler, guesses, out) ==
    LET total == SumAmounts(guesses) * honeypot.tick_size
    IN  /\ out.res = "Ok"
        /\ out.locked[gambler].active
        /\ out.locked[gambler].slot = clock
        /\ out.locked[gambler].active_size = total
        /\ out.bal[Ata(gambler)] = bal[Ata(gambler)] - total
        /\ out.bal[VaultAcct] = bal[VaultAcct] + total

\* C1 as stated: every commit on an Idle record with the Vault above the
\* floor and sum * tick_size within u64 and max_amount succeeds with
\* active = true, the current slot, active_size = sum * tick_size, the player
\* debited and the Vault credited by exactly that amount.
C1_AsStated ==
    \A gambler \in Solo, guesses \in GuessLists :
        C1_Pre(gambler, guesses) =>
            C1_Post(gambler, guesses,
                    place_guesses(gambler, gambler, Ata(gambler), gambler, guesses))

\* C1 amended: the same, for every such commit whose payer holds at least
\* sum * tick_size tokens; a payer holding less makes the token transfer, and
\* with it the commit, fail.
C1_CommitEffect ==
    \A gambler \in Solo, guesses \in GuessLists :
        LET total == SumAmounts(guesses) * honeypot.tick_size
            out == place_guesses(gambler, gambler, Ata(gambler), gambler, guesses)
        IN  C1_Pre(gambler, guesses) =>
                IF bal[Ata(gambler)] >= total
                THEN C1_Post(gambler, guesses, out)
                ELSE out.res = "TokenInsufficientFunds"

\* A commit of a positive stake has just succeeded.
C1_Witness ==
    /\ last.op = "PlaceGuesses"
    /\ ~last.active
    /\ locked[last.guess_account].active
    /\ locked[last.guess_account].active_size > 0
    /\ locked[last.guess_account].slot = clock

\* C2: in every record, active = false, active_size = 0 and 'every stake is
\* zero' hold together or fail together.
C2_ActiveIffStaked ==
    \A p \in Records :
        /\ (~locked[p].active) <=> (locked[p].active_size = 0)
        /\ (locked[p].active_size = 0) <=> (locked[p].guesses = ZeroGuesses)

\* C3: a Committed record's active_size is the sum of its 64 stored stakes
\* times tick_size.
C3_ActiveSizeIsStoredSum ==
    \A p \in Records :
        locked[p].active =>
            locked[p].active_size = SumStakes(locked[p].guesses) * honeypot.tick_size

\* C4: after every successful spin the record it resolved is Idle: not
\* active, active_size 0, all 64 stakes zero.
C4_SpinLeavesIdle ==
    last.op = "Spin" => IsIdle(locked[last.guess_account])

\* A spin has resolved a Committed record and paid no reward.
C4_Witness ==
    /\ last.op = "Spin"
    /\ last.active
    /\ IsIdle(locked[last.guess_account])
    /\ bal[Ata(last.guess_account)] < InitialPlayer

\* A well-formed spin for player p: its own record and holding account, alone
\* in its transaction.
SpinFor(p, tolerance, random_sample, overflow_checks) ==
    spin(p, Ata(p), p, tolerance, random_sample, clock, 0, 1, overflow_checks)
Committed == {p \in Solo : locked[p].allocated /\ locked[p].active}
Untouched(out) == out.locked = locked /\ out.bal = bal /\ out.rng = rng

\* C5 as stated: spin on a Committed record fails with InvalidSlot when the
\* sampled slot is <= the commit slot or > commit slot + tolerance, changing
\* nothing, and passes the window check exactly when
\* commit slot < sampled slot <= commit slot + tolerance.
C5_AsStated ==
    \A p \in Committed, tolerance \in Tolerances, v \in SampleValues, oc \in BOOLEAN :
        LET c == locked[p].slot
            out == SpinFor(p, tolerance, v, oc)
        IN  /\ (clock <= c \/ clock > c + tolerance) =>
                (out.res = "InvalidSlot" /\ Untouched(out))
            /\ (c < clock /\ clock <= c + tolerance) <=>
                (WindowError(clock, c, tolerance) = "" /\ out.res # "InvalidSlot")

\* C5 amended: as stated, except that the window check is passed exactly
\* when commit slot < sampled slot <= commit slot + tolerance and
\* commit slot + tolerance does not overflow u64; when the sampled slot is
\* beyond the commit slot and commit slot + tolerance overflows, spin fails
\* with NumericalOverflow and changes nothing.
C5_Window ==
    \A p \in Committed, tolerance \in Tolerances, v \in SampleValues, oc \in BOOLEAN :
        LET c == locked[p].slot
            out == SpinFor(p, tolerance, v, oc)
        IN  /\ (clock <= c \/ clock > c + tolerance) =>
                (out.res = "InvalidSlot" /\ Untouched(out))
            /\ (c < clock /\ c + tolerance > U64_MAX) =>
                (out.res = "NumericalOverflow" /\ Untouched(out))
            /\ (c < clock /\ clock <= c + tolerance /\ c + tolerance <= U64_MAX) <=>
                (WindowError(clock, c, tolerance) = "" /\ out.res # "InvalidSlot")

\* A record committed at slot 1 is spun at slot 2: tolerance 0 is too late,
\* tolerance 1 is inside the window, tolerance u64::MAX overflows.
C5_Witness ==
    /\ "p1" \in Committed
    /\ locked["p1"].slot = 1
    /\ clock = 2
    /\ SpinFor("p1", 0, 38, TRUE).res = "InvalidSlot"
    /\ SpinFor("p1", 1, 38, TRUE).res = "Ok"
    /\ SpinFor("p1", U64_MAX, 38, TRUE).res = "NumericalOverflow"

\* A well-formed commit by player p on its own record.
CommitFor(p, guesses) == place_guesses(p, p, Ata(p), p, guesses)
Idle == {p \in Solo : locked[p].allocated /\ ~locked[p].active}
NoOverflow(guesses) ==
    SumAmounts(guesses) <= U64_MAX /\ SumAmounts(guesses) * honeypot.tick_size <= U64_MAX
StaysIdle(p, out) == Untouched(out) /\ IsIdle(out.locked[p])

\* C6 as stated: a commit fails with AmountTooLarge when sum * tick_size
\* exceeds max_amount and with InsufficientFunds when the Vault holds no more
\* than minimum_bank_size; either way no funds move and the record stays Idle
\* with no stakes.
C6_AsStated ==
    \A p \in Idle, guesses \in GuessLists :
        LET out == CommitFor(p, guesses)
        IN  /\ (NoOverflow(guesses) /\
                SumAmounts(guesses) * honeypot.tick_size > honeypot.max_amount) =>
                    (out.res = "AmountTooLarge" /\ StaysIdle(p, out))
            /\ bal[VaultAcct] <= honeypot.minimum_bank_size =>
                    (out.res = "InsufficientFunds" /\ StaysIdle(p, out))

\* C6 amended: a commit on an Idle record whose sum and sum * tick_size do
\* not overflow fails with InsufficientFunds when the Vault holds no more than
\* minimum_bank_size, whatever the total, and with AmountTooLarge when the
\* Vault holds more and sum * tick_size exceeds max_amount; either way no
\* funds move and the record stays Idle with no stakes.
C6_CommitRejected ==
    \A p \in Idle, guesses \in GuessLists :
        LET out == CommitFor(p, guesses)
            total == SumAmounts(guesses) * honeypot.tick_size
        IN  NoOverflow(guesses) =>
                /\ bal[VaultAcct] <= honeypot.minimum_bank_size =>
                        (out.res = "InsufficientFunds" /\ StaysIdle(p, out))
                /\ (bal[VaultAcct] > honeypot.minimum_bank_size /\
                    total > honeypot.max_amount) =>
                        (out.res = "AmountTooLarge" /\ StaysIdle(p, out))

\* The house has withdrawn down to the floor: a stake above max_amount is
\* now refused for the floor, a moment ago it was refused for its size.
C6_Witness ==
    /\ last.op = "WithdrawFromHoneypot"
    /\ "p1" \in Idle
    /\ honeypot.tick_size = 1
    /\ bal[VaultAcct] = honeypot.minimum_bank_size
    /\ CommitFor("p1", <<[guess |-> 38, amount |-> 20]>>).res = "InsufficientFunds"

\* C7: a commit on a Committed record fails with ActiveSpin, whoever signs
\* and whatever it stakes, and leaves the record, the Vault and the player's
\* balance as they were.
C7_OneCommitment ==
    \A p \in Committed, caller \in Signers(Solo), guesses \in GuessLists :
        LET out == place_guesses(caller, p, Ata(p), p, guesses)
        IN  out.res = "ActiveSpin" /\ Untouched(out)

\* A record has just been committed; a second commit is refused.
C7_Witness ==
    /\ last.op = "PlaceGuesses"
    /\ "p1" \in Committed
    /\ locked["p1"].active_size > 0
    /\ CommitFor("p1", <<[guess |-> 38, amount |-> 1]>>).res = "ActiveSpin"

\* C8: try_cancel on an Idle record returns Ok and changes nothing, whatever
\* accounts and signer it is given.
C8_CancelIdleNoop ==
    \A p \in Idle, caller \in Signers(Solo), gambler \in Solo, gta \in Holdings(Solo) :
        LET out == try_cancel(caller, gambler, gta, p)
        IN  out.res = "Ok" /\ Untouched(out) /\ out.honeypot = honeypot

\* A try_cancel has succeeded on a record it found Idle.
C8_Witness ==
    /\ last.op = "TryCancel"
    /\ ~last.active
    /\ IsIdle(locked[last.guess_account])

\* What C9 says a cancel of p's Committed record leaves behind.
C9_Refunded(p, out) ==
    /\ out.res = "Ok"
    /\ out.bal[VaultAcct] = bal[VaultAcct] - locked[p].active_size
    /\ out.bal[Ata(p)] = bal[Ata(p)] + locked[p].active_size
    /\ IsIdle(out.locked[p])

\* C9 as stated: try_cancel on a Committed record moves active_size from the
\* Vault to the player and resets the record, whoever signs and at whatever
\* slot.
C9_AsStated ==
    \A p \in Committed, caller \in Signers(Solo) :
        C9_Refunded(p, try_cancel(caller, p, Ata(p), p))

\* C9 on a solvent Vault: the same whenever the Vault holds at least
\* active_size; when it holds less (the house has withdrawn, or rewards were
\* paid) the refund fails and nothing changes.
C9_CancelRefunds ==
    \A p \in Committed, caller \in Signers(Solo) :
        LET out == try_cancel(caller, p, Ata(p), p)
        IN  IF bal[VaultAcct] >= locked[p].active_size
            THEN C9_Refunded(p, out)
            ELSE out.res = "TokenInsufficientFunds" /\ Untouched(out)

\* A positive stake committed in this slot has just been refunded.
C9_Witness ==
    /\ last.op = "TryCancel"
    /\ last.active
    /\ IsIdle(locked[last.guess_account])
    /\ locked[last.guess_account].slot = clock
    /\ clock > 0
    /\ honeypot.tick_size = 1
    /\ bal[Ata(last.guess_account)] = InitialPlayer

\* The payout table applied to the stored stakes in unbounded arithmetic:
\* the sum over the non-zero slots, from slot i, of amount * multiplier of
\* the winning kinds.
RECURSIVE TableReward(_, _, _)
TableReward(stakes, outcome, i) ==
    IF i >= NumGuessKinds THEN 0
    ELSE (IF stakes[i] # 0 /\ Wins(i, outcome) THEN stakes[i] * Multiplier(i) ELSE 0)
         + TableReward(stakes, outcome, i + 1)

\* C10: a successful spin takes outcome = sampled value mod 38, sums the
\* table payouts of the non-zero stakes, multiplies the sum once by tick_size
\* and moves exactly that from the Vault to the player (nothing when it is 0).
C10_SpinPaysTable ==
    \A p \in Committed, tolerance \in Tolerances, v \in SampleValues, oc \in BOOLEAN :
        LET out == SpinFor(p, tolerance, v, oc)
            outcome == v % NumPockets
            total_reward == TableReward(locked[p].guesses, outcome, 0) * honeypot.tick_size
        IN  out.res = "Ok" =>
                /\ outcome \in 0..37
                /\ out.rng.value = v
                /\ out.bal[Ata(p)] = bal[Ata(p)] + total_reward
                /\ out.bal[VaultAcct] = bal[VaultAcct] - total_reward

\* C11: a spin that is not the only instruction of its transaction (more than
\* one instruction, at any position) is rejected with SuspiciousTransaction.
C11_BundleRejected ==
    \A p \in Committed, tolerance \in Tolerances, v \in SampleValues, oc \in BOOLEAN :
        \A num_instructions \in 2..MaxIx :
            \A current_instruction \in 0..(num_instructions - 1) :
                spin(p, Ata(p), p, tolerance, v, clock, current_instruction,
                     num_instructions, oc).res = "SuspiciousTransaction"

\* C12: a commit in which player a pays and signs but the record supplied is
\* the one derived for another player b is rejected and leaves b's record as
\* it was.
C12_ForeignRecordRejected ==
    \A a \in Players, b \in Players, guesses \in GuessLists :
        (a # b /\ locked[b].allocated) =>
            LET out == place_guesses(a, a, Ata(a), b, guesses)
            IN  out.res # "Ok" /\ out.locked[b] = locked[b]

\* C13: in every reachable state the Vault holds at least the active_size of
\* every Committed record, so try_cancel on it, well-formed and by any
\* signer, does not fail.
C13_VaultCoversStakes ==
    \A p \in Records :
        locked[p].active =>
            /\ bal[VaultAcct] >= locked[p].active_size
            /\ \A caller \in Signers(Solo) : try_cancel(caller, p, Ata(p), p).res = "Ok"

\* C14: when a spin that is inside its window meets an overflow (a stake's
\* amount * multiplier, the sum of the payouts, or the sum * tick_size exceeds
\* u64::MAX), it fails with NumericalOverflow and changes nothing; the terms
\* are non-negative, so an overflow of a product is one of the sum too.
C14_OverflowIsNumericalOverflow ==
    \A p \in Committed, tolerance \in Tolerances, v \in SampleValues, oc \in BOOLEAN :
        LET out == SpinFor(p, tolerance, v, oc)
            reward == TableReward(locked[p].guesses, v % NumPockets, 0)
        IN  (/\ WindowError(clock, locked[p].slot, tolerance) = ""
             /\ (reward > U64_MAX \/ reward * honeypot.tick_size > U64_MAX)) =>
                (out.res = "NumericalOverflow" /\ Untouched(out))

\* C15: a commit on an Idle record whose stake amounts overflow u64 in their
\* sum, or whose sum overflows when multiplied by tick_size, fails with
\* NumericalOverflow; no funds move and the record stays Idle with no stakes.
C15_CommitOverflow ==
    \A p \in Idle, guesses \in GuessLists :
        LET out == CommitFor(p, guesses)
        IN  ~NoOverflow(guesses) =>
                (out.res = "NumericalOverflow" /\ StaysIdle(p, out))

\* An Idle record under tick_size 2: the stake 50 overflows in the
\* multiplication, the stakes 20 and 50 overflow in the sum.
C15_Witness ==
    /\ "p1" \in Idle
    /\ honeypot.tick_size = 2
    /\ checked_add(20, 50) = None
    /\ checked_add(0, 50) = 50 /\ checked_mul(50, honeypot.tick_size) = None
    /\ CommitFor("p1", <<[guess |-> 38, amount |-> 50]>>).res = "NumericalOverflow"
    /\ CommitFor("p1", <<[guess |-> 38, amount |-> 20],
                         [guess |-> 38, amount |-> 50]>>).res = "NumericalOverflow"

\* An instruction that returned an error left the records, the RNG account,
\* the Honeypot and every balance as they were.
NoEffect(out) == out.res # "Ok" => (Untouched(out) /\ out.honeypot = honeypot)

C17_OwnerWithdraws ==
    \A caller \in Signers(Solo), owner_info \in Signers(Solo), amount \in U64 :
        LET out == withdraw_from_honeypot(caller, owner_info, Ata(owner_info), amount)
            owner == honeypot.owner
        IN  /\ out.res = "Ok" => (caller = owner /\ owner_info = owner)
            /\ caller # owner => (out.res # "Ok" /\ out.bal[VaultAcct] = bal[VaultAcct])
            /\ (caller = owner /\ owner_info = owner /\ amount <= bal[VaultAcct]) =>
                    /\ out.res = "Ok"
                    /\ out.bal[VaultAcct] = bal[VaultAcct] - amount
                    /\ out.bal[Ata(owner)] = bal[Ata(owner)] + amount
                    /\ \A p \in Players : out.bal[Ata(p)] = bal[Ata(p)]
                    /\ out.locked = locked

\* The owner has withdrawn all but one token of the house's funds while a
\* player's stake is in the Vault; the player cannot withdraw.
C17_Witness ==
    /\ last.op = "WithdrawFromHoneypot"
    /\ bal[Ata(Owner)] = HouseFunds + 1
    /\ "p1" \in Committed
    /\ withdraw_from_honeypot("p1", Owner, Ata(Owner), 1).res = "MissingRequiredSignature"
    /\ withdraw_from_honeypot("p1", "p1", Ata("p1"), 1).res = "PublicKeyMismatch"

\* The pocket C18 gives each straight-up category: ordinal 0 is pocket 0,
\* ordinal 1 is pocket 37, ordinal k in 2..37 is pocket k - 1.
C18_Pocket(k) == CASE k = 0 -> 0 [] k = 1 -> 37 [] OTHER -> k - 1

\* C18: a straight-up bet of amount A on pocket p pays 36 * A when the
\* outcome is p and 0 otherwise, for every amount and every outcome in 0..37.
C18_StraightUpPays ==
    (payout.applied /\ payout.guess \in 0..37) =>
        payout.value = IF payout.outcome = C18_Pocket(payout.guess)
                       THEN 36 * payout.amount ELSE 0

\* C18 for the amounts whose 36 * A fits u64.
C18_StraightUpPaysInRange ==
    (payout.applied /\ payout.guess \in 0..37 /\ 36 * payout.amount <= U64_MAX) =>
        payout.value = IF payout.outcome = C18_Pocket(payout.guess)
                       THEN 36 * payout.amount ELSE 0

\* The red set of C19, and what C19 says wins for Red (38) and Black (39).
C19_RedSet == {1, 3, 5, 7, 9, 12, 14, 16, 18, 19, 21, 23, 25, 27, 30, 32, 34, 36}
C19_Wins(g, outcome) ==
    \/ g = 38 /\ outcome \in C19_RedSet
    \/ g = 39 /\ outcome \in (1..36) \ C19_RedSet

\* C19: a Red bet of amount A pays 2 * A when the outcome is in the red set
\* and 0 otherwise, a Black bet pays 2 * A when the outcome is in 1..36 and
\* not red and 0 otherwise; 0 and 37 pay 0 for both.
C19_RedBlackPays ==
    (payout.applied /\ payout.guess \in {38, 39}) =>
        payout.value = IF C19_Wins(payout.guess, payout.outcome)
                       THEN 2 * payout.amount ELSE 0

\* C19 for the amounts whose 2 * A fits u64.
C19_RedBlackPaysInRange ==
    (payout.applied /\ payout.guess \in {38, 39} /\ 2 * payout.amount <= U64_MAX) =>
        payout.value = IF C19_Wins(payout.guess, payout.outcome)
                       THEN 2 * payout.amount ELSE 0

\* What C20 says wins for Even (40), Odd (41), Col1..Col3 (42..44),
\* Dozen1..Dozen3 (45..47), Low (48) and High (49), and the factor it pays.
C20_Wins(g, outcome) ==
    CASE g = 40 -> outcome # 0 /\ outcome % 2 = 0
      [] g = 41 -> outcome # 37 /\ outcome % 2 = 1
      [] g = 42 -> outcome # 37 /\ outcome % 3 = 1
      [] g = 43 -> outcome % 3 = 2
      [] g = 44 -> outcome # 0 /\ outcome % 3 = 0
      [] g = 45 -> outcome \in 1..12
      [] g = 46 -> outcome \in 13..24
      [] g = 47 -> outcome \in 25..36
      [] g = 48 -> outcome \in 1..18
      [] g = 49 -> outcome \in 19..36
C20_Factor(g) == IF g \in 42..47 THEN 3 ELSE 2

\* C20: Even, Odd, Low and High pay 2 * A, the columns and the dozens pay
\* 3 * A, exactly on the outcomes of the table, and 0 on every other outcome.
C20_OutsidePays ==
    (payout.applied /\ payout.guess \in 40..49) =>
        payout.value = IF C20_Wins(payout.guess, payout.outcome)
                       THEN C20_Factor(payout.guess) * payout.amount ELSE 0

\* C20 for the amounts whose product with the factor fits u64.
C20_OutsidePaysInRange ==
    (/\ payout.applied
     /\ payout.guess \in 40..49
     /\ C20_Factor(payout.guess) * payout.amount <= U64_MAX) =>
        payout.value = IF C20_Wins(payout.guess, payout.outcome)
                       THEN C20_Factor(payout.guess) * payout.amount ELSE 0

\* C21: InitializeGuessAccount on the record derived for the player, not yet
\* allocated, succeeds and leaves the record Idle (not active, active_size 0,
\* all 64 stakes zero) with owner = the player and vault = the Vault, and
\* touches nothing else; on a record that is already allocated it fails and
\* leaves every record as it was, a Committed one included.
C21_InitOnce ==
    \A gambler \in Players, guess_account \in Players :
        LET out == initialize_guess_account(gambler, guess_account)
            rec == out.locked[guess_account]
        IN  /\ (honeypot.allocated /\ gambler = guess_account
                    /\ ~locked[guess_account].allocated)
               => /\ out.res = "Ok"
                  /\ rec.allocated /\ IsIdle(rec)
                  /\ rec.owner = gambler /\ rec.vault = VaultAcct
                  /\ \A q \in Players \ {guess_account} : out.locked[q] = locked[q]
                  /\ out.bal = bal /\ out.rng = rng /\ out.honeypot = honeypot
            /\ out.res = "Ok" => ~locked[guess_account].allocated
            /\ locked[guess_account].allocated
               => (out.res # "Ok" /\ out.locked = locked)

\* A Committed record on which a second InitializeGuessAccount is refused.
C21_Witness ==
    /\ "p1" \in Committed
    /\ last.op = "PlaceGuesses"
    /\ initialize_guess_account("p1", "p1").res = "AccountAlreadyInUse"
    /\ initialize_guess_account("p1", "p1").locked["p1"].active

\* C22: a spin of an Idle record by its player, with the player's own holding
\* account, at any position of a transaction, for any tolerance and any
\* sample, returns Inactive and leaves the records, the balances (the Vault
\* and the player's among them), the RNG account and the Honeypot unchanged.
C22_SpinIdleInactive ==
    \A p \in Idle, tolerance \in Tolerances, random_sample \in SampleValues :
        \A num_instructions \in 1..MaxIx, overflow_checks \in BOOLEAN :
            \A current_instruction \in 0..(num_instructions - 1) :
                LET out == spin(p, Ata(p), p, tolerance, random_sample, clock,
                                current_instruction, num_instructions, overflow_checks)
                IN  out.res = "Inactive" /\ Untouched(out) /\ out.honeypot = honeypot

\* A record that a spin has just resolved is Idle, and a further spin of it
\* is refused.
C22_Witness ==
    /\ last.op = "Spin"
    /\ last.guess_account = "p1"
    /\ "p1" \in Idle
    /\ SpinFor("p1", 1, 38, TRUE).res = "Inactive"

\* C23: in every step, a record that was not active and is active afterwards
\* was written by a successful place_guesses on it; a record that was active
\* and is not active afterwards was written by a successful spin or a
\* successful try_cancel on it; and a record that is active before and after
\* the step has the same stakes, the same active_size and the same commit
\* slot, whatever instruction the step was.
C23_Lifecycle ==
    [][\A p \in Players :
          LET before == locked[p]
              after == locked'[p]
          IN  /\ (~before.active /\ after.active)
                 => (last'.op = "PlaceGuesses" /\ last'.guess_account = p)
              /\ (before.active /\ ~after.active)
                 => (last'.op \in {"Spin", "TryCancel"} /\ last'.guess_account = p)
              /\ (before.active /\ after.active)
                 => /\ after.guesses = before.guesses
                    /\ after.active_size = before.active_size
                    /\ after.slot = before.slot]_vars

\* The owner has withdrawn from the Vault while a record was Committed, and
\* the record still holds its commitment.
C23_Witness ==
    /\ last.op = "WithdrawFromHoneypot"
    /\ "p1" \in Committed
    /\ locked["p1"].active_size > 0
    /\ locked["p1"].guesses # ZeroGuesses

\* The balances of out differ from the present ones only by an amount moved
\* from the Vault to the holding account of player r.
C24_PaysOnly(out, r) ==
    /\ \A a \in TokenAccounts \ {VaultAcct, Ata(r)} : out.bal[a] = bal[a]
    /\ out.bal[Ata(r)] >= bal[Ata(r)]
    /\ out.bal[Ata(r)] - bal[Ata(r)] = bal[VaultAcct] - out.bal[VaultAcct]

\* C24: for every record r (named by the player it is derived for), every
\* signer, every gambler account and every token account given as the
\* destination: a try_cancel or a spin on r that succeeds moves tokens to
\* the holding account of r's own player and to no other account, and with
\* a destination other than that holding account a spin, and a try_cancel of
\* a Committed record, fails and moves nothing.
C24_PaysOwnPlayer ==
    \A r \in Records, gambler \in Signers(Duo), gta \in TokenAccounts :
        /\ \A caller \in Signers(Duo) :
               LET out == try_cancel(caller, gambler, gta, r)
               IN  /\ out.res = "Ok" => C24_PaysOnly(out, r)
                   /\ (locked[r].active /\ gta # Ata(r))
                      => (out.res # "Ok" /\ out.bal = bal)
        /\ \A random_sample \in SampleValues, overflow_checks \in BOOLEAN :
               LET out == spin(gambler, gta, r, 1, random_sample, clock, 0, 1,
                               overflow_checks)
               IN  /\ out.res = "Ok" => C24_PaysOnly(out, r)
                   /\ gta # Ata(r) => (out.res # "Ok" /\ out.bal = bal)

\* Both players hold a Committed record, and a spin of p2's record asked to
\* pay p1's holding account is refused while the same spin towards p2's own
\* holding account pays p2.
C24_Witness ==
    /\ locked["p1"].active /\ locked["p2"].active
    /\ spin("p2", Ata("p1"), "p2", 1, 43, clock, 0, 1, TRUE).res # "Ok"
    /\ spin("p1", Ata("p1"), "p2", 1, 43, clock, 0, 1, TRUE).res # "Ok"
    /\ LET out == spin("p2", Ata("p2"), "p2", 1, 43, clock, 0, 1, TRUE)
       IN  out.res = "Ok" /\ out.bal[Ata("p2")] > bal[Ata("p2")]

\* The tokens in the Vault and in all the holding accounts together.
RECURSIVE C25_Sum(_)
C25_Sum(accounts) ==
    IF accounts = {} THEN 0
    ELSE LET a == CHOOSE x \in accounts : TRUE
         IN  bal[a] + C25_Sum(accounts \ {a})

\* What a step takes out of the Vault.
C25_VaultLoss == bal[VaultAcct] - bal'[VaultAcct]

\* The total_reward a spin that has left sample v computes from the record.
C25_TotalRewards(locked_guesses, v) ==
    {checked_mul(SpinLoop(locked_guesses.guesses, v % NumPockets, 0, 0, oc).reward,
                 honeypot.tick_size) : oc \in BOOLEAN}

\* C25: in every reachable state the Vault and the holding accounts of the
\* players and of the owner together hold what they held initially, and every
\* step changes the Vault balance by: + the active_size written, for a
\* place_guesses; - the total_reward of the spin, for a spin; - the
\* active_size of the record, for a try_cancel; - the amount withdrawn (which
\* the owner's holding account receives), for a withdrawal; nothing, for any
\* other instruction, a sample included.
C25_ValueConserved ==
    /\ [](C25_Sum(TokenAccounts) = HouseFunds + InitialPlayer * Cardinality(Players))
    /\ [][LET r == last'.guess_account
          IN  CASE last'.op = "PlaceGuesses" ->
                       C25_VaultLoss = 0 - locked'[r].active_size
                [] last'.op = "Spin" ->
                       C25_VaultLoss \in C25_TotalRewards(locked[r], rng'.value)
                [] last'.op = "TryCancel" ->
                       C25_VaultLoss = locked[r].active_size
                [] last'.op = "WithdrawFromHoneypot" ->
                       /\ C25_VaultLoss \in WithdrawAmounts
                       /\ bal'[Ata(Owner)] = bal[Ata(Owner)] + C25_VaultLoss
                [] OTHER -> C25_VaultLoss = 0]_vars

\* Tokens have gone from a player to the Vault and from the Vault to the
\* owner, and a spin has then resolved the record.
C25_Witness ==
    /\ last.op = "Spin"
    /\ bal[Ata(Owner)] > 0
    /\ bal[VaultAcct] # HouseFunds
    /\ bal[Ata("p1")] # InitialPlayer
    /\ C25_Sum(TokenAccounts) = HouseFunds + InitialPlayer * Cardinality(Players)

\* C26: a spin of a Committed record by its player that succeeds, for any
\* tolerance, any sample and either build of the multiplication, takes from
\* the Vault at most 36 times the record's active_size.
C26_PaysAtMost36 ==
    \A p \in Committed, tolerance \in Tolerances, random_sample \in SampleValues :
        \A overflow_checks \in BOOLEAN :
            LET out == SpinFor(p, tolerance, random_sample, overflow_checks)
            IN  out.res = "Ok"
                => bal[VaultAcct] - out.bal[VaultAcct] <= 36 * locked[p].active_size

\* A Committed record with a straight-up stake whose spin succeeds and pays
\* exactly 36 times its active_size.
C26_Witness ==
    /\ "p1" \in Committed
    /\ locked["p1"].active_size > 0
    /\ \E tolerance \in Tolerances :
           LET out == SpinFor("p1", tolerance, 43, TRUE)
           IN  /\ out.res = "Ok"
               /\ bal[VaultAcct] - out.bal[VaultAcct] = 36 * locked["p1"].active_size

\* The kinds among gs on which a stake of 1 is paid something on the outcome.
C27_Winners(gs, outcome) == {g \in gs : get_payout(g, 1, outcome, TRUE) # 0}

\* C27: for the outcome of every evaluated guess: exactly one straight-up
\* kind (0..37) wins; on the outcomes 0 and 37 every outside kind (38..49)
\* pays 0 for every amount; on the outcomes 1..36 exactly one of Red/Black,
\* one of Even/Odd, one column, one dozen and one of Low/High wins.
C27_Partition ==
    payout.applied =>
        LET outcome == payout.outcome
        IN  /\ Cardinality(C27_Winners(0..37, outcome)) = 1
            /\ outcome \in {0, 37}
               => /\ C27_Winners(38..49, outcome) = {}
                  /\ payout.guess \in 38..49 => payout.value = 0
            /\ outcome \in 1..36
               => /\ Cardinality(C27_Winners({38, 39}, outcome)) = 1
                  /\ Cardinality(C27_Winners({40, 41}, outcome)) = 1
                  /\ Cardinality(C27_Winners(42..44, outcome)) = 1
                  /\ Cardinality(C27_Winners(45..47, outcome)) = 1
                  /\ Cardinality(C27_Winners({48, 49}, outcome)) = 1
            /\ (payout.amount = 1 /\ payout.value # 0)
               => payout.guess \in C27_Winners(0..(NumGuessKinds - 1), outcome)

\* An Odd stake evaluated on the pocket 37 (the second zero) was paid 0.
C27_Witness ==
    /\ payout.applied
    /\ payout.guess = 41
    /\ payout.outcome = 37
    /\ payout.amount = 1
    /\ payout.value = 0

\* C28: every allocated record that is not active has active_size 0 and all
\* 64 stakes zero, so that the stakes a successful place_guesses leaves in it
\* are amounts of its own list, at slots its list names.
C28_IdleIsEmpty ==
    \A p \in Records :
        ~locked[p].active =>
            /\ IsIdle(locked[p])
            /\ \A guesses \in GuessLists :
                   LET out == CommitFor(p, guesses)
                   IN  out.res = "Ok" =>
                          \A i \in 0..(NumSlots - 1) :
                              out.locked[p].guesses[i] # 0 =>
                                  \E k \in 1..Len(guesses) :
                                      /\ guesses[k].guess = i
                                      /\ guesses[k].amount = out.locked[p].guesses[i]

\* A try_cancel has taken a Committed record back to Idle: nothing is left
\* in it, and a commit of Red = 1 on it stores that stake alone.
C28_Witness ==
    /\ last.op = "TryCancel"
    /\ last.active
    /\ last.guess_account = "p1"
    /\ IsIdle(locked["p1"])
    /\ LET out == CommitFor("p1", <<[guess |-> 38, amount |-> 1]>>)
       IN  /\ out.res = "Ok"
           /\ out.locked["p1"].guesses = [ZeroGuesses EXCEPT ![38] = 1]

\* Two results agree, unless one of them met a Vault that does not suffice.
C29_Same(before, after) ==
    \/ before = after
    \/ before.res = "TokenInsufficientFunds"
    \/ after.res = "TokenInsufficientFunds"

\* C29: after every place_guesses, spin or try_cancel that has written a
\* player's record, in every interleaving of the two players' instructions,
\* the Committed record of the other player b is what it was before the
\* instruction, and a try_cancel and a spin (for every sample and either
\* build) of b's record give the result, the record and the payment they
\* would have given before it, unless the Vault does not suffice.
C29_Independent ==
    \A b \in DOMAIN last.before :
        LET before == last.before[b]
        IN  /\ Staked(locked[b]) = before.record
            /\ C29_Same(before.cancel, CancelResult(b))
            /\ \A s \in SampleValues \X BOOLEAN :
                   C29_Same(before.resolve[s], SpinResult(b, s[1], s[2]))

\* p1's Committed record has been cancelled while p2's record was Committed:
\* p2's record is still Committed, its cancel refunds p2 as it would have
\* before, and its spin pays p2 as it would have before.
C29_Witness ==
    /\ last.op = "TryCancel"
    /\ last.guess_account = "p1"
    /\ last.active
    /\ "p2" \in DOMAIN last.before
    /\ locked["p2"].active
    /\ CancelResult("p2").res = "Ok"
    /\ CancelResult("p2").paid = locked["p2"].active_size
    /\ CancelResult("p2").paid > 0
    /\ last.before["p2"].cancel = CancelResult("p2")
    /\ \E s \in SampleValues \X BOOLEAN :
           /\ SpinResult("p2", s[1], s[2]).res = "Ok"
           /\ SpinResult("p2", s[1], s[2]).paid > 0
           /\ last.before["p2"].resolve[s] = SpinResult("p2", s[1], s[2])

\* C30 as stated: for a Committed record, the window check of spin fails for
\* tolerance 0 at every sampled slot, and passes at every sampled slot beyond
\* the commit slot for every tolerance >= sampled slot - commit slot.
C30_AsStated ==
    \A p \in Committed :
        LET c == locked[p].slot
        IN  /\ WindowError(clock, c, 0) # ""
            /\ \A tolerance \in U64 :
                   (clock > c /\ tolerance >= clock - c)
                   => WindowError(clock, c, tolerance) = ""

\* C30 amended: for a Committed record, the window check fails for tolerance
\* 0 at every sampled slot (spin returns InvalidSlot); at a sampled slot
\* beyond the commit slot it passes for every tolerance >= sampled slot -
\* commit slot for which commit slot + tolerance does not overflow u64,
\* however far the sampled slot is from the commit slot, and fails with
\* NumericalOverflow for the tolerances for which it overflows.
C30_CallerBoundsWindow ==
    \A p \in Committed :
        LET c == locked[p].slot
        IN  /\ WindowError(clock, c, 0) = "InvalidSlot"
            /\ \A v \in SampleValues, oc \in BOOLEAN :
                   SpinFor(p, 0, v, oc).res = "InvalidSlot"
            /\ \A tolerance \in U64 :
                   (clock > c /\ tolerance >= clock - c)
                   => WindowError(clock, c, tolerance)
                          = IF c + tolerance <= U64_MAX THEN "" ELSE "NumericalOverflow"

\* A record committed at slot 0 and spun two or more slots later: tolerance 0
\* and tolerance 1 are refused, the distance itself and u64::MAX are let
\* through.
C30_Witness ==
    /\ "p1" \in Committed
    /\ locked["p1"].slot = 0
    /\ clock >= 2
    /\ SpinFor("p1", 0, 38, TRUE).res = "InvalidSlot"
    /\ SpinFor("p1", 1, 38, TRUE).res = "InvalidSlot"
    /\ WindowError(clock, 0, clock) = ""
    /\ SpinFor("p1", U64_MAX, 38, TRUE).res = "Ok"

\* The failure conditions of a commit that hold for a record and a list of
\* stakes, as the sentence of the claim names them.
C31_Holding(locked_guesses, guesses) ==
    LET sum == SumAmounts(guesses)
        total == sum * honeypot.tick_size
    IN  [ActiveSpin |-> locked_guesses.active,
         NumericalOverflow |-> sum > U64_MAX \/ total > U64_MAX,
         InsufficientFunds |-> bal[VaultAcct] <= honeypot.minimum_bank_size,
         AmountTooLarge |-> total > honeypot.max_amount]
C31_Order == <<"ActiveSpin", "NumericalOverflow", "InsufficientFunds", "AmountTooLarge">>
C31_First(holding) ==
    LET at == {i \in 1..Len(C31_Order) : holding[C31_Order[i]]}
    IN  IF at = {} THEN ""
        ELSE C31_Order[CHOOSE i \in at : \A j \in at : i <= j]

\* C31: a commit on a player's own record reports the first failure
\* condition that holds, in the order ActiveSpin (record Committed),
\* NumericalOverflow (the stake sum or sum * tick_size overflows u64),
\* InsufficientFunds (Vault balance <= minimum_bank_size), AmountTooLarge
\* (sum * tick_size > max_amount), whoever signs and however many of them hold
\* at once; it reports none of the four when none holds; a refused commit
\* changes nothing.
C31_FirstFailureReported ==
    \A p \in Records, caller \in Signers(Solo), guesses \in GuessLists :
        LET out == place_guesses(caller, p, Ata(p), p, guesses)
            first == C31_First(C31_Holding(locked[p], guesses))
        IN  IF first # "" THEN out.res = first /\ Untouched(out)
            ELSE out.res \notin {C31_Order[i] : i \in 1..Len(C31_Order)}

\* The house has withdrawn down to the floor under a Committed record: a
\* second commit whose stakes overflow meets all four conditions and reports
\* ActiveSpin; the conditions after the first are each reported by some other
\* commit in reach of the model (the overflow and the floor on an Idle record
\* are those of C6_Witness and C11).
C31_Witness ==
    /\ last.op = "WithdrawFromHoneypot"
    /\ "p1" \in Committed
    /\ LET guesses == <<[guess |-> 38, amount |-> 50], [guess |-> 38, amount |-> 50]>>
           holding == C31_Holding(locked["p1"], guesses)
       IN  /\ \A i \in 1..Len(C31_Order) : holding[C31_Order[i]]
           /\ CommitFor("p1", guesses).res = "ActiveSpin"

====
